---------------------------- MODULE Spec2Model ----------------------------
(***************************************************************************)
(* Model of planner_server/app.py: the plan endpoint, the action-plan      *)
(* normalizer (normalize_plan), the rule-based planner                     *)
(* (maybe_rule_based_plan) and the JSON extractor (extract_json).          *)
(*                                                                         *)
(* Python strings are sequences of one-character strings, so that strip,   *)
(* lower, upper, startswith and the regular expressions are computed       *)
(* character by character.  JSON values are tagged records.                *)
(***************************************************************************)
EXTENDS Integers, Sequences, FiniteSets, TLC

VARIABLES
    entry,           \* the function under call: "plan", "normalize_plan", "maybe_rule_based_plan"
    transcript,      \* req.transcript / the transcript argument (a string)
    plan_json,       \* the argument of normalize_plan when it is called directly
    USE_RULE_BASED,  \* the module-level feature flag
    lax_str,         \* whether the installed pydantic coerces numbers to str fields
    pc,              \* "ready", "awaiting_backend" (blocked in requests.post), "done"
    rb_plan,         \* what maybe_rule_based_plan returned (None before/without the call)
    reply,           \* the outcome of call_ollama (None before/without the call)
    failed,          \* TRUE when a step inside plan's try block raised
    calls,           \* the collaborators invoked so far, in order
    ret              \* what the function under call returned, or that it raised

vars == <<entry, transcript, plan_json, USE_RULE_BASED, lax_str, pc, rb_plan,
          reply, failed, calls, ret>>

---------------------------------------------------------------------------
(* Characters and Python string methods *)

LowerAlpha == <<"a","b","c","d","e","f","g","h","i","j","k","l","m",
                "n","o","p","q","r","s","t","u","v","w","x","y","z">>

UpperAlpha == <<"A","B","C","D","E","F","G","H","I","J","K","L","M",
                "N","O","P","Q","R","S","T","U","V","W","X","Y","Z">>

Digits == <<"0","1","2","3","4","5","6","7","8","9">>

\* \s of the re module and the characters str.strip() removes
IsSpace(c) == c \in {" ", "\t", "\n", "\r", "\f"}

IsLowerCh(c) == \E i \in 1..26 : LowerAlpha[i] = c

IsUpperCh(c) == \E i \in 1..26 : UpperAlpha[i] = c

IsAlpha(c) == IsLowerCh(c) \/ IsUpperCh(c)

\* \w of the re module: letters, digits and the underscore
IsWord(c) == IsAlpha(c) \/ c = "_" \/ \E i \in 1..10 : Digits[i] = c

LowerCh(c) == IF IsUpperCh(c) THEN LowerAlpha[CHOOSE i \in 1..26 : UpperAlpha[i] = c] ELSE c

UpperCh(c) == IF IsLowerCh(c) THEN UpperAlpha[CHOOSE i \in 1..26 : LowerAlpha[i] = c] ELSE c

\* str.lower()
Lower(s) == [i \in 1..Len(s) |-> LowerCh(s[i])]

\* str.upper()
Upper(s) == [i \in 1..Len(s) |-> UpperCh(s[i])]

RECURSIVE LStrip(_)
LStrip(s) == IF s # <<>> /\ IsSpace(Head(s)) THEN LStrip(Tail(s)) ELSE s

RECURSIVE RStrip(_)
RStrip(s) == IF s # <<>> /\ IsSpace(s[Len(s)]) THEN RStrip(SubSeq(s, 1, Len(s) - 1)) ELSE s

\* str.strip()
Strip(s) == RStrip(LStrip(s))

\* str.startswith(p)
StartsWith(s, p) == Len(s) >= Len(p) /\ SubSeq(s, 1, Len(p)) = p

\* p in s, for strings
Contains(s, p) == \E i \in 1..(Len(s) - Len(p) + 1) : SubSeq(s, i, i + Len(p) - 1) = p

\* str.title(): a letter is upper-cased after a non-letter, lower-cased after a letter
Title(s) == [i \in 1..Len(s) |->
               IF i > 1 /\ IsAlpha(s[i - 1]) THEN LowerCh(s[i]) ELSE UpperCh(s[i])]

\* re.sub(r"\W+", "", s)
StripNonWord(s) == SelectSeq(s, IsWord)

\* The delimiters of the mainKey split, [|+,\s]
IsDelim(c) == c \in {"|", "+", ","} \/ IsSpace(c)

RECURSIVE FirstSplit(_)
\* re.split(r"[|+,\s]+", s)[0]: what precedes the first delimiter (possibly nothing)
FirstSplit(s) == IF s = <<>> \/ IsDelim(Head(s)) THEN <<>>
                 ELSE <<Head(s)>> \o FirstSplit(Tail(s))

---------------------------------------------------------------------------
(* JSON values as Python sees them after json.loads *)

JNull == [t |-> "null"]

\* a key that the dict does not hold
JAbsent == [t |-> "absent"]

JStr(s) == [t |-> "str", s |-> s]

JNum(n) == [t |-> "num", n |-> n]

JList(l) == [t |-> "list", l |-> l]

\* The keys the program reads or writes in a plan or an action
Keys == {"name", "actions", "kind", "mainKey", "modifiers", "text", "millisecondsDelay"}

\* A dict holding the fields of record r and no other key
Obj(r) == [t |-> "dict", d |-> [k \in Keys |-> IF k \in DOMAIN r THEN r[k] ELSE JAbsent]]

\* dict.get(k): None for a missing key
Get(o, k) == IF o.d[k] = JAbsent THEN JNull ELSE o.d[k]

\* d[k] = v
Put(o, k, v) == [o EXCEPT !.d[k] = v]

\* bool(v)
Truthy(v) == CASE v.t = "str" -> v.s # <<>>
               [] v.t = "num" -> v.n # 0
               [] v.t = "list" -> v.l # <<>>
               [] v.t = "dict" -> \E k \in Keys : v.d[k] # JAbsent
               [] OTHER -> FALSE

\* Whether (v or "") is a str, that is whether .strip() / .lower() exist on it
OrEmptyIsStr(v) == ~Truthy(v) \/ v.t = "str"

\* (v or ""), when it is a str
OrEmpty(v) == IF Truthy(v) THEN v.s ELSE <<>>

\* Whether a truthy v can be iterated by a for loop
Iterable(v) == v.t \in {"list", "str"}

\* The items a for loop over (v or []) visits: a list's elements, a string's characters
Iter(v) == IF ~Truthy(v) THEN <<>>
           ELSE IF v.t = "str" THEN [i \in 1..Len(v.s) |-> JStr(<<v.s[i]>>)]
           ELSE v.l

\* str(v) for a string or a one-digit number
PyStr(v) == IF v.t = "str" THEN v.s ELSE <<Digits[v.n + 1]>>

---------------------------------------------------------------------------
(* String constants of the program *)

KeyChord == <<"K","e","y","C","h","o","r","d">>

KeyTap == <<"K","e","y","T","a","p">>

TextInput == <<"T","e","x","t","I","n","p","u","t">>

ScrollVertical == <<"S","c","r","o","l","l","V","e","r","t","i","c","a","l">>

ScrollHorizontal == <<"S","c","r","o","l","l","H","o","r","i","z","o","n","t","a","l">>

MouseMoveTo == <<"M","o","u","s","e","M","o","v","e","T","o">>

MouseMoveBy == <<"M","o","u","s","e","M","o","v","e","B","y">>

MouseDown == <<"M","o","u","s","e","D","o","w","n">>

MouseUp == <<"M","o","u","s","e","U","p">>

MouseClick == <<"M","o","u","s","e","C","l","i","c","k">>

MouseDoubleClick == <<"M","o","u","s","e","D","o","u","b","l","e","C","l","i","c","k">>

Wait == <<"W","a","i","t">>

\* The vocabulary with Wait forgotten
AllowedKindsWithoutWait == {KeyChord, KeyTap, TextInput, ScrollVertical, ScrollHorizontal,
                            MouseMoveTo, MouseMoveBy, MouseDown, MouseUp, MouseClick,
                            MouseDoubleClick}

ALLOWED_ACTION_KINDS == {KeyChord, KeyTap, TextInput, ScrollVertical, ScrollHorizontal,
                         MouseMoveTo, MouseMoveBy, MouseDown, MouseUp, MouseClick,
                         MouseDoubleClick, Wait}

NoOp == <<"N","o","O","p">>

LLMPlan == <<"L","L","M","P","l","a","n">>

Empty == <<"E","m","p","t","y">>

SHIFT == <<"S","H","I","F","T">>

CONTROL == <<"C","O","N","T","R","O","L">>

CTRL == <<"C","T","R","L">>

MENU == <<"M","E","N","U">>

ALT == <<"A","L","T">>

LWIN == <<"L","W","I","N">>

RETURN == <<"R","E","T","U","R","N">>

---------------------------------------------------------------------------
(* normalize_plan *)

\* The outcomes of one pass of the loop body over an entry
Raise == [o |-> "raise"]

Skip == [o |-> "skip"]

Keep(a) == [o |-> "keep", a |-> a]

\* "convert empty strings to None": every present field holding a blank string
BlankToNone(a) ==
    [a EXCEPT !.d = [k \in Keys |->
        IF a.d[k].t = "str" /\ Strip(a.d[k].s) = <<>> THEN JNull ELSE a.d[k]]]

\* The loop body without the ALT -> MENU synonym
NormalizeModifierNoAlt(m) ==
    IF ~Truthy(m) THEN <<>>
    ELSE LET u == Strip(Upper(PyStr(m)))
             c == IF u \in {CTRL, CONTROL} THEN CONTROL ELSE u
         IN  IF c \in {SHIFT, CONTROL, MENU, LWIN} THEN <<JStr(c)>> ELSE <<>>

\* The loop body over one modifier m: the canonical token appended, or none
NormalizeModifier(m) ==
    IF ~Truthy(m) THEN <<>>
    ELSE LET u == Strip(Upper(PyStr(m)))
             c == IF u \in {CTRL, CONTROL} THEN CONTROL ELSE u
             n == IF c \in {ALT, MENU} THEN MENU ELSE c
         IN  IF n \in {SHIFT, CONTROL, MENU, LWIN} THEN <<JStr(n)>> ELSE <<>>

RECURSIVE NormalizeModifiers(_)
\* norm_mods after the loop over mods
NormalizeModifiers(mods) ==
    IF mods = <<>> THEN <<>>
    ELSE NormalizeModifier(Head(mods)) \o NormalizeModifiers(Tail(mods))

\* mk without the split of line 159: the whole stripped mainKey
MainKeyTokenUnsplit(v) == Strip(OrEmpty(v))

\* mk after lines 158-159: the first piece of the stripped mainKey, <<>> for None
MainKeyToken(v) == LET mk == Strip(OrEmpty(v)) IN IF mk # <<>> THEN FirstSplit(mk) ELSE <<>>

\* The dedupe test of lines 182-185 on an entry a of kind TextInput
DedupeTextInput(a, cleaned) ==
    LET prev == cleaned[Len(cleaned)] IN
    IF cleaned = <<>> \/ prev.d["kind"] # JStr(TextInput) THEN Keep(a)
    ELSE IF ~OrEmptyIsStr(Get(prev, "text")) \/ ~OrEmptyIsStr(Get(a, "text")) THEN Raise
    ELSE IF Lower(OrEmpty(Get(prev, "text"))) = Lower(OrEmpty(Get(a, "text"))) THEN Skip
    ELSE Keep(a)

\* The KeyChord / KeyTap branch, lines 157-176
NormalizeKeyAction(a) ==
    IF ~OrEmptyIsStr(Get(a, "mainKey")) THEN Raise
    ELSE LET mk == MainKeyToken(Get(a, "mainKey"))
             mods == Get(a, "modifiers")
         IN  IF mk = <<>> THEN Skip
             ELSE IF Truthy(mods) /\ ~Iterable(mods) THEN Raise
             ELSE LET norm_mods == NormalizeModifiers(Iter(mods))
                  IN  Keep(Put(Put(a, "mainKey", JStr(mk)), "modifiers",
                               IF norm_mods = <<>> THEN JNull ELSE JList(norm_mods)))

\* The loop body of lines 144-187 over entry a, with the actions retained so far
NormalizeAction(a, cleaned) ==
    IF a.t # "dict" THEN Skip
    ELSE IF ~OrEmptyIsStr(Get(a, "kind")) THEN Raise
    ELSE LET kind == Strip(OrEmpty(Get(a, "kind"))) IN
         IF kind \notin ALLOWED_ACTION_KINDS \/ kind = NoOp THEN Skip
         ELSE LET b == BlankToNone(a) IN
              IF kind \in {KeyChord, KeyTap} THEN NormalizeKeyAction(b)
              ELSE LET c == Put(Put(b, "mainKey", JNull), "modifiers", JNull) IN
                   IF kind = TextInput THEN DedupeTextInput(c, cleaned) ELSE Keep(c)

RECURSIVE NormalizeLoop(_, _)
\* The for loop of line 144: cleaned after the remaining entries, or Raise
NormalizeLoop(actions, cleaned) ==
    IF actions = <<>> THEN Keep(cleaned)
    ELSE LET r == NormalizeAction(Head(actions), cleaned) IN
         IF r.o = "raise" THEN Raise
         ELSE NormalizeLoop(Tail(actions),
                            IF r.o = "keep" THEN Append(cleaned, r.a) ELSE cleaned)

\* What a call returns: a value, or an exception
Returned(v) == [raised |-> FALSE, v |-> v]

Raised == [raised |-> TRUE]

NoOpPlan == Obj([name |-> JStr(NoOp), actions |-> JList(<<>>)])

normalize_plan(p) ==
    IF p.t # "dict" THEN Returned(NoOpPlan)
    ELSE LET actions == Get(p, "actions") IN
         IF Truthy(actions) /\ ~Iterable(actions) THEN Raised
         ELSE LET r == NormalizeLoop(Iter(actions), <<>>) IN
              IF r.o = "raise" THEN Raised
              ELSE LET q == Put(p, "actions", JList(r.a)) IN
                   Returned(IF ~Truthy(Get(q, "name")) THEN Put(q, "name", JStr(LLMPlan)) ELSE q)

---------------------------------------------------------------------------
(* maybe_rule_based_plan *)

Verbs == {<<"o","p","e","n">>, <<"l","a","u","n","c","h">>, <<"s","t","a","r","t">>}

\* tl.startswith("open ") or tl.startswith("launch ") or tl.startswith("start ")
Triggers(tl) == \E v \in Verbs : StartsWith(tl, v \o <<" ">>)

RECURSIVE SkipSpaces(_, _)
\* Where a greedy \s* starting at index i of s stops
SkipSpaces(s, i) == IF i <= Len(s) /\ IsSpace(s[i]) THEN SkipSpaces(s, i + 1) ELSE i

\* Whether the word w (lower case) stands at index i of s, letter case ignored
WordAt(s, i, w) == i + Len(w) - 1 <= Len(s) /\ Lower(SubSeq(s, i, i + Len(w) - 1)) = w

\* Where, past its end, a match of \s+and\s+type\s+ starting at index i stops; 0 if none
AndTypeEnd(s, i) ==
    LET j == SkipSpaces(s, i)
        k == SkipSpaces(s, j + 3)
        e == SkipSpaces(s, k + 4)
    IN  IF /\ j > i
           /\ WordAt(s, j, <<"a","n","d">>)
           /\ k > j + 3
           /\ WordAt(s, k, <<"t","y","p","e">>)
           /\ e > k + 4
        THEN e ELSE 0

RECURSIVE FirstAndType(_, _)
\* Where the leftmost match of \s+and\s+type\s+ at or after index i starts; 0 if none
FirstAndType(s, i) == IF i > Len(s) THEN 0
                      ELSE IF AndTypeEnd(s, i) > 0 THEN i
                      ELSE FirstAndType(s, i + 1)

\* re.split(r"\s+and\s+type\s+", t, flags=re.I, maxsplit=1): split at the leftmost match
SplitAndType(t) ==
    LET i == FirstAndType(t, 1) IN
    IF i > 0 THEN <<SubSeq(t, 1, i - 1), SubSeq(t, AndTypeEnd(t, i), Len(t))>> ELSE <<t>>

\* re.sub(r"^(open|launch|start)\s+", "", s, flags=re.I)
RemoveVerb(s) ==
    IF \E v \in Verbs : WordAt(s, 1, v) /\ SkipSpaces(s, Len(v) + 1) > Len(v) + 1
    THEN LET v == CHOOSE w \in Verbs : WordAt(s, 1, w) /\ SkipSpaces(s, Len(w) + 1) > Len(w) + 1
         IN  SubSeq(s, SkipSpaces(s, Len(v) + 1), Len(s))
    ELSE s

\* parts, when the lower-cased transcript tl holds " and type "; else the whole transcript
Parts(t, tl) == IF Contains(tl, <<" ","a","n","d"," ","t","y","p","e"," ">>)
                THEN SplitAndType(t) ELSE <<t>>

\* app_part, lines 204-208
AppPart(parts) == parts[1]

\* type_part, lines 205-209
TypePart(parts) == IF Len(parts) > 1 THEN Strip(parts[2]) ELSE <<>>

\* app_name, line 212
AppName(app_part) == Strip(RemoveVerb(app_part))

KeyTapAction(key) == Obj([kind |-> JStr(KeyTap), mainKey |-> JStr(key)])

WaitAction(ms) == Obj([kind |-> JStr(Wait), millisecondsDelay |-> JNum(ms)])

TextInputAction(text) == Obj([kind |-> JStr(TextInput), text |-> JStr(text)])

\* The action list of lines 217-230
RuleActions(app_name, type_part) ==
    <<KeyTapAction(LWIN), WaitAction(150), TextInputAction(app_name),
      WaitAction(400), KeyTapAction(RETURN), WaitAction(1200)>>
    \o (IF type_part # <<>> THEN <<WaitAction(300), TextInputAction(type_part)>> ELSE <<>>)

\* safe_name
SafeName(app_name) == StripNonWord(Title(app_name))

\* The plan, or None
maybe_rule_based_plan(tr) ==
    LET t == Strip(tr)
        tl == Lower(t)
        parts == Parts(t, tl)
        app_name == AppName(AppPart(parts))
    IN  IF ~Triggers(tl) THEN JNull
        ELSE IF app_name = <<>> THEN JNull
        ELSE Obj([name |-> JStr(<<"O","p","e","n">> \o SafeName(app_name)),
                  actions |-> JList(RuleActions(app_name, TypePart(parts)))])

---------------------------------------------------------------------------
(* extract_json.  A backend text is a sequence of segments: prose without  *)
(* braces, or the serialization of one JSON value.  Values other than      *)
(* dicts are taken brace-free, so the braces of a text are those that      *)
(* open and close its dict segments.                                       *)

Prose == [seg |-> "prose"]

Json(v) == [seg |-> "json", v |-> v]

IsDictSeg(g) == g.seg = "json" /\ g.v.t = "dict"

\* The parsed value, or None
extract_json(text) ==
    IF Len(text) = 1 /\ text[1].seg = "json" THEN text[1].v
    ELSE LET braces == {i \in 1..Len(text) : IsDictSeg(text[i])} IN
         IF braces = {} THEN JNull
         ELSE IF Cardinality(braces) = 1 THEN text[CHOOSE i \in braces : TRUE].v
         ELSE JNull

---------------------------------------------------------------------------
(* PlanResponseDto construction from plan_json: pydantic validation of a normalized plan *)

IsDigits(s) == s # <<>> /\ \A i \in 1..Len(s) : \E n \in 1..10 : Digits[n] = s[i]

RECURSIVE ParseInt(_)
ParseInt(s) == IF s = <<>> THEN 0
               ELSE 10 * ParseInt(SubSeq(s, 1, Len(s) - 1))
                    + (CHOOSE n \in 0..9 : Digits[n + 1] = s[Len(s)])

\* A str field: the validated value, or JAbsent when validation fails
StrField(v, lax) == CASE v.t = "str" -> v
                      [] v.t = "num" /\ lax /\ v.n \in 0..9 -> JStr(PyStr(v))
                      [] OTHER -> JAbsent

\* An Optional[str] field
OptStrField(v, lax) == IF v.t \in {"null", "absent"} THEN JNull ELSE StrField(v, lax)

\* An Optional[int] field
OptIntField(v) == CASE v.t \in {"null", "absent"} -> JNull
                    [] v.t = "num" -> v
                    [] v.t = "str" /\ IsDigits(Strip(v.s)) -> JNum(ParseInt(Strip(v.s)))
                    [] OTHER -> JAbsent

\* An Optional[List[str]] field
OptStrListField(v, lax) ==
    CASE v.t \in {"null", "absent"} -> JNull
      [] v.t = "list" ->
           IF \E i \in 1..Len(v.l) : StrField(v.l[i], lax) = JAbsent THEN JAbsent
           ELSE JList([i \in 1..Len(v.l) |-> StrField(v.l[i], lax)])
      [] OTHER -> JAbsent

\* ActionDto built from dict a: the fields after validation (JAbsent marks a failed one)
ActionDto(a, lax) ==
    [kind |-> StrField(a.d["kind"], lax),
     mainKey |-> OptStrField(a.d["mainKey"], lax),
     modifiers |-> OptStrListField(a.d["modifiers"], lax),
     text |-> OptStrField(a.d["text"], lax),
     millisecondsDelay |-> OptIntField(a.d["millisecondsDelay"])]

ActionDtoOk(a, lax) ==
    /\ a.t = "dict"
    /\ \A f \in DOMAIN ActionDto(a, lax) : ActionDto(a, lax)[f] # JAbsent

\* PlanResponseDto(name=..., actions=...) from program literals
Response(name, actions) == [name |-> name, actions |-> actions]

\* PlanResponseDto built from dict p: the response, or a ValidationError
PlanResponseDto(p, lax) ==
    LET name == IF p.d["name"] = JAbsent THEN JStr(LLMPlan) ELSE StrField(p.d["name"], lax)
        acts == p.d["actions"]
    IN  IF name = JAbsent THEN Raised
        ELSE IF acts = JAbsent THEN Returned(Response(name.s, <<>>))
        ELSE IF acts.t # "list" THEN Raised
        ELSE IF \E i \in 1..Len(acts.l) : ~ActionDtoOk(acts.l[i], lax) THEN Raised
        ELSE Returned(Response(name.s, [i \in 1..Len(acts.l) |-> ActionDto(acts.l[i], lax)]))

---------------------------------------------------------------------------
(* plan: the steps of the endpoint *)

\* The test without strip(): only the empty transcript is blank
IsBlankUnstripped(tr) == tr = <<>>

\* not req.transcript.strip()
IsBlank(tr) == Strip(tr) = <<>>

NoOpResponse == Response(NoOp, <<>>)

\* The try block without its except clause: an exception leaves plan
TryExceptPropagating(r) == r

\* try: ... except Exception: return PlanResponseDto(name="NoOp", actions=[])
TryExcept(r) == IF r.raised THEN Returned(NoOpResponse) ELSE r

\* normalize_plan followed by PlanResponseDto construction (lines 247-248, 265-266)
NormalizeAndRespond(p, lax) ==
    LET n == normalize_plan(p) IN IF n.raised THEN Raised ELSE PlanResponseDto(n.v, lax)

\* Lines 261-266, the body of the try block once call_ollama has returned text
Pipeline(text, lax) ==
    LET pj == extract_json(text) IN
    IF ~Truthy(pj) THEN Returned(NoOpResponse) ELSE NormalizeAndRespond(pj, lax)

\* The collaborators Pipeline invokes on text
PipelineCalls(text) ==
    <<"extract_json">> \o (IF Truthy(extract_json(text)) THEN <<"normalize_plan">> ELSE <<>>)

---------------------------------------------------------------------------
(* Inputs *)

\* The longest action list of a plan handed to normalize_plan
MaxActions == 2

\* The longest transcript handed to maybe_rule_based_plan, in pieces
MaxPieces == 5

sA == <<"A">>

sHello == <<"H","e","l","l","o">>

sHelloLower == <<"h","e","l","l","o">>

sBogus == <<"b","o","g","u","s">>

sBlank == <<" ">>

sP == <<"P">>

\* The entries of candidate action lists
Entries ==
    { JNum(7),
      Obj([kind |-> JStr(NoOp), text |-> JStr(sHello)]),
      Obj([kind |-> JStr(sBogus), text |-> JStr(sHello)]),
      Obj([text |-> JStr(sHello)]),
      Obj([kind |-> JNum(5)]),
      Obj([kind |-> JNum(0)]),
      Obj([kind |-> JStr(KeyTap), mainKey |-> JStr(<<"L","W","I","N","+","R">>)]),
      Obj([kind |-> JStr(KeyTap), mainKey |-> JStr(<<"+","R">>)]),
      Obj([kind |-> JStr(KeyTap), mainKey |-> JStr(sBlank)]),
      Obj([kind |-> JStr(KeyTap), modifiers |-> JList(<<JStr(SHIFT)>>)]),
      Obj([kind |-> JStr(KeyTap), mainKey |-> JNum(8)]),
      Obj([kind |-> JStr(<<" ">> \o KeyTap \o <<" ">>), mainKey |-> JStr(sA),
           modifiers |-> JList(<<JStr(<<"c","t","r","l">>), JStr(sBogus), JStr(ALT)>>)]),
      Obj([kind |-> JStr(KeyChord), mainKey |-> JStr(sA), modifiers |-> JList(<<JStr(sBogus)>>)]),
      Obj([kind |-> JStr(KeyChord), mainKey |-> JStr(<<" ","V","K","_","T",","," ">>),
           modifiers |-> JList(<<JStr(<<" ","S","h","i","f","t"," ">>), JNum(3), JNull,
                                 JStr(LWIN), JStr(MENU), JStr(<<"C","o","n","t","r","o","l">>)>>)]),
      Obj([kind |-> JStr(KeyChord), mainKey |-> JStr(sA), modifiers |-> JStr(CTRL)]),
      Obj([kind |-> JStr(KeyChord), mainKey |-> JStr(sA), modifiers |-> JNum(4)]),
      Obj([kind |-> JStr(TextInput), text |-> JStr(sHello)]),
      Obj([kind |-> JStr(TextInput), text |-> JStr(sHelloLower)]),
      Obj([kind |-> JStr(TextInput \o <<" ">>), text |-> JStr(sHelloLower)]),
      Obj([kind |-> JStr(TextInput)]),
      Obj([kind |-> JStr(TextInput), text |-> JStr(sBlank)]),
      Obj([kind |-> JStr(TextInput), text |-> JNum(3)]),
      Obj([kind |-> JStr(Wait), millisecondsDelay |-> JNum(150), mainKey |-> JStr(sA),
           modifiers |-> JList(<<JStr(SHIFT)>>)]),
      Obj([kind |-> JStr(MouseClick), mainKey |-> JNum(8), modifiers |-> JNum(4)]) }

\* Every list of at most n entries
ListsUpTo(n) == UNION { [1..m -> Entries] : m \in 0..n }

\* The name field of candidate plans
Names == {JAbsent, JStr(<<>>), JStr(sP)}

\* The structures handed to normalize_plan
PlanJsons ==
    { JNull, JNum(5), JStr(Wait), JList(<<>>), Obj([actions |-> JNum(3)]),
      Obj([name |-> JStr(sP), actions |-> JStr(Wait)]), Obj([actions |-> JNull]) }
    \cup { [t |-> "dict", d |-> [k \in Keys |-> IF k = "name" THEN n
                                               ELSE IF k = "actions" THEN JList(l)
                                               ELSE JAbsent]] :
           n \in Names, l \in ListsUpTo(MaxActions) }

\* The pieces transcripts are assembled from
Pieces == { <<"o","p","e","n">>, <<"L","a","u","n","c","h">>, <<" ">>, <<"v","s","-","c","o","d","e">>,
            <<" ","a","n","d"," ","t","y","p","e"," ">>, <<"H","i">> }

RECURSIVE Concat(_)
Concat(ps) == IF ps = <<>> THEN <<>> ELSE Head(ps) \o Concat(Tail(ps))

\* The transcripts handed to maybe_rule_based_plan
Transcripts == { Concat(ps) : ps \in UNION { [1..m -> Pieces] : m \in 0..MaxPieces } }

sOpenChrome == <<"o","p","e","n"," ","c","h","r","o","m","e">>

sAndType == <<" ","a","n","d"," ","t","y","p","e"," ">>

sHelloWorld == <<"h","e","l","l","o"," ","w","o","r","l","d">>

\* The transcripts of the requests sent to the endpoint
RequestTranscripts ==
    { <<>>, <<" ">>, <<"\t"," ">>, sOpenChrome, sOpenChrome \o sAndType \o sHelloWorld,
      <<"c","l","o","s","e"," ","i","t">>, <<"S","T","A","R","T"," ","v","s"," ","c","o","d","e">>,
      <<"s","t","a","r","t","\t","i","t">>, <<"o","p","e","n">> \o sAndType \o sHelloLower }

\* The JSON values the backend's text may embed
ReplyValues ==
    { JNum(0), JNum(5), JList(<<>>), Obj(<<>>),
      Obj([name |-> JList(<<JStr(sP)>>), actions |-> JList(<<>>)]),
      Obj([name |-> JNum(5), actions |-> JList(<<>>)]),
      Obj([actions |-> JNum(3)]) }
    \cup { Obj([name |-> JStr(sP), actions |-> JList(<<e>>)]) : e \in Entries }
    \cup { Obj([actions |-> JList(<<e, Obj([kind |-> JStr(Wait),
                                            millisecondsDelay |-> JStr(<<"1","5","0">>)])>>)]) :
           e \in Entries }

\* The texts call_ollama may return
ReplyTexts ==
    { <<>>, <<Prose>> }
    \cup { <<Json(v)>> : v \in ReplyValues }
    \cup { <<Prose, Json(v), Prose>> : v \in ReplyValues }
    \cup { <<Json(v), Prose, Json(v)>> : v \in ReplyValues }

\* How call_ollama may fail: requests timeout, connection or HTTP error, malformed payload
BackendFailures == {"timeout", "transport_error", "bad_payload"}

---------------------------------------------------------------------------
(* The state machine *)

NoReply == [k |-> "none"]

InitCommon ==
    /\ pc = "ready"
    /\ rb_plan = JNull
    /\ reply = NoReply
    /\ failed = FALSE
    /\ calls = <<>>
    /\ ret = [raised |-> FALSE, v |-> JNull]

Init ==
    /\ InitCommon
    /\ \/ /\ entry = "plan"
          /\ transcript \in RequestTranscripts
          /\ plan_json = JNull
          /\ USE_RULE_BASED \in BOOLEAN
          /\ lax_str \in BOOLEAN
       \/ /\ entry = "normalize_plan"
          /\ transcript = <<>>
          /\ plan_json \in PlanJsons
          /\ USE_RULE_BASED = FALSE
          /\ lax_str = FALSE
       \/ /\ entry = "maybe_rule_based_plan"
          /\ transcript \in Transcripts
          /\ plan_json = JNull
          /\ USE_RULE_BASED = FALSE
          /\ lax_str = FALSE

\* plan, lines 240-242: a blank transcript
PlanEmpty ==
    /\ entry = "plan" /\ pc = "ready"
    /\ IsBlank(transcript)
    /\ ret' = Returned(Response(Empty, <<>>))
    /\ pc' = "done"
    /\ UNCHANGED <<entry, transcript, plan_json, USE_RULE_BASED, lax_str, rb_plan,
                   reply, failed, calls>>

\* plan, lines 244-248: the rule-based planner applies
PlanRuleBased ==
    /\ entry = "plan" /\ pc = "ready"
    /\ ~IsBlank(transcript)
    /\ USE_RULE_BASED
    /\ Truthy(maybe_rule_based_plan(Strip(transcript)))
    /\ rb_plan' = maybe_rule_based_plan(Strip(transcript))
    /\ calls' = <<"maybe_rule_based_plan", "normalize_plan">>
    /\ ret' = NormalizeAndRespond(rb_plan', lax_str)
    /\ pc' = "done"
    /\ UNCHANGED <<entry, transcript, plan_json, USE_RULE_BASED, lax_str, reply, failed>>

\* plan, lines 244-260: no rule-based plan, the request goes to the backend
PlanCallBackend ==
    /\ entry = "plan" /\ pc = "ready"
    /\ ~IsBlank(transcript)
    /\ ~(USE_RULE_BASED /\ Truthy(maybe_rule_based_plan(Strip(transcript))))
    /\ calls' = (IF USE_RULE_BASED THEN <<"maybe_rule_based_plan">> ELSE <<>>)
                \o <<"call_ollama">>
    /\ pc' = "awaiting_backend"
    /\ UNCHANGED <<entry, transcript, plan_json, USE_RULE_BASED, lax_str, rb_plan,
                   reply, failed, ret>>

\* call_ollama returns text; plan, lines 261-270
BackendReturns ==
    /\ pc = "awaiting_backend"
    /\ \E text \in ReplyTexts :
         /\ reply' = [k |-> "text", text |-> text]
         /\ failed' = Pipeline(text, lax_str).raised
         /\ calls' = calls \o PipelineCalls(text)
         /\ ret' = TryExcept(Pipeline(text, lax_str))
    /\ pc' = "done"
    /\ UNCHANGED <<entry, transcript, plan_json, USE_RULE_BASED, lax_str, rb_plan>>

\* call_ollama raises; plan, lines 269-270
BackendFails ==
    /\ pc = "awaiting_backend"
    /\ \E k \in BackendFailures : reply' = [k |-> k]
    /\ failed' = TRUE
    /\ ret' = TryExcept(Raised)
    /\ pc' = "done"
    /\ UNCHANGED <<entry, transcript, plan_json, USE_RULE_BASED, lax_str, rb_plan, calls>>

\* A direct call of normalize_plan
CallNormalizePlan ==
    /\ entry = "normalize_plan" /\ pc = "ready"
    /\ ret' = normalize_plan(plan_json)
    /\ calls' = <<"normalize_plan">>
    /\ pc' = "done"
    /\ UNCHANGED <<entry, transcript, plan_json, USE_RULE_BASED, lax_str, rb_plan,
                   reply, failed>>

\* A direct call of maybe_rule_based_plan
CallMaybeRuleBasedPlan ==
    /\ entry = "maybe_rule_based_plan" /\ pc = "ready"
    /\ rb_plan' = maybe_rule_based_plan(transcript)
    /\ ret' = Returned(rb_plan')
    /\ calls' = <<"maybe_rule_based_plan">>
    /\ pc' = "done"
    /\ UNCHANGED <<entry, transcript, plan_json, USE_RULE_BASED, lax_str, reply, failed>>

Next ==
    \/ PlanEmpty
    \/ PlanRuleBased
    \/ PlanCallBackend
    \/ BackendReturns
    \/ BackendFails
    \/ CallNormalizePlan
    \/ CallMaybeRuleBasedPlan

Spec == Init /\ [][Next]_vars

---------------------------------------------------------------------------
(* Properties.  Shared vocabulary first. *)

\* A direct call of normalize_plan has returned (not raised)
NormReturned == entry = "normalize_plan" /\ pc = "done" /\ ~ret.raised

\* The action list of the plan normalize_plan returned
NormOut == ret.v.d["actions"].l

\* normalize_plan was given a mapping whose "actions" is a list
NormGivenList == /\ entry = "normalize_plan"
                 /\ plan_json.t = "dict"
                 /\ plan_json.d["actions"].t = "list"

\* That list
NormIn == plan_json.d["actions"].l

\* The kind of entry e after trimming, <<>> when e holds no string kind
TrimmedKind(e) == IF e.t = "dict" /\ e.d["kind"].t = "str" THEN Strip(e.d["kind"].s) ELSE <<>>

IsKeyEntry(e) == TrimmedKind(e) \in {KeyChord, KeyTap}

\* The text of entry e lower-cased, absent or blank counting as the empty string
FoldedText(e) == IF e.d["text"].t = "str" /\ Strip(e.d["text"].s) # <<>>
                 THEN Lower(e.d["text"].s) ELSE <<>>

RECURSIVE DropDelims(_)
DropDelims(s) == IF s # <<>> /\ IsDelim(Head(s)) THEN DropDelims(Tail(s)) ELSE s

RECURSIVE SplitFrom(_, _)
\* The pieces of s cut at its runs of delimiters, cur being the piece under way
SplitFrom(s, cur) ==
    IF s = <<>> THEN <<cur>>
    ELSE IF IsDelim(Head(s)) THEN <<cur>> \o SplitFrom(DropDelims(s), <<>>)
    ELSE SplitFrom(Tail(s), Append(cur, Head(s)))

\* s split on runs of delimiters; a delimiter at an end leaves an empty piece there
SplitOnDelimiters(s) == SplitFrom(s, <<>>)

\* What remains of the mainKey of entry e: the first piece of the split of the
\* trimmed mainKey, <<>> when the mainKey is absent or blank
FirstPieceOfMainKey(e) ==
    IF e.d["mainKey"].t = "str" /\ Strip(e.d["mainKey"].s) # <<>>
    THEN SplitOnDelimiters(Strip(e.d["mainKey"].s))[1] ELSE <<>>

NonEmpty(x) == x # <<>>

Canonical == {SHIFT, CONTROL, MENU, LWIN}

---------------------------------------------------------------------------
\* C1: for a request with a non-blank transcript, whatever the backend call and
\* the extraction / normalization / response steps do, plan returns a plan and
\* surfaces no exception; when the backend call failed, the text held no JSON at
\* all, or a step of the pipeline raised, that plan is exactly NoOp with no action.
C1_PlanAlwaysReturnsPlan ==
    (/\ entry = "plan" /\ pc = "done"
     /\ \E i \in 1..Len(transcript) : ~IsSpace(transcript[i]))
    => /\ ~ret.raised
       /\ ret.v.name # <<>>
       /\ ( \/ reply.k \in BackendFailures
            \/ (reply.k = "text" /\ \A i \in 1..Len(reply.text) : reply.text[i] = Prose)
            \/ failed )
          => (ret.v.name = NoOp /\ ret.v.actions = <<>>)

\* C1 witness: the backend returned text, a later step raised, and NoOp came back
C1_Witness ==
    /\ entry = "plan" /\ pc = "done"
    /\ reply.k = "text" /\ failed
    /\ ret = Returned(NoOpResponse)

\* C2: for a blank (empty or whitespace-only) transcript plan returns exactly
\* Empty with no action, and at no point of the execution is the rule-based
\* planner or the backend (or any other collaborator) invoked.
C2_BlankTranscriptEmpty ==
    (entry = "plan" /\ \A i \in 1..Len(transcript) : IsSpace(transcript[i]))
    => /\ calls = <<>>
       /\ pc # "awaiting_backend"
       /\ pc = "done" => (~ret.raised /\ ret.v.name = Empty /\ ret.v.actions = <<>>)

\* C2 witness: a whitespace-only, non-empty transcript has been answered
C2_Witness ==
    /\ entry = "plan" /\ pc = "done"
    /\ transcript = <<"\t", " ">>
    /\ ret = Returned(Response(Empty, <<>>))

\* C3: normalize_plan never raises; for every input structure it returns a plan
\* with a name and an action list.
C3_NormalizeNeverRaises ==
    (entry = "normalize_plan" /\ pc = "done")
    => /\ ~ret.raised
       /\ ret.v.t = "dict"
       /\ ret.v.d["name"] # JAbsent
       /\ ret.v.d["actions"].t = "list"

\* C4: in every plan normalize_plan returns, the kind stored in each action is
\* exactly one of the twelve names of the enumeration.
C4_KindInEnumeration ==
    NormReturned
    => \A i \in 1..Len(NormOut) :
          /\ NormOut[i].d["kind"].t = "str"
          /\ NormOut[i].d["kind"].s \in ALLOWED_ACTION_KINDS

\* C5: in every plan normalize_plan returns, no two adjacent actions are both
\* TextInput (kind compared after trimming) with case-insensitively equal text,
\* absent text counting as the empty string.
C5_NoAdjacentDuplicateTextInput ==
    NormReturned
    => \A i \in 1..(Len(NormOut) - 1) :
          ~ /\ TrimmedKind(NormOut[i]) = TextInput
            /\ TrimmedKind(NormOut[i + 1]) = TextInput
            /\ NormOut[i].d["text"].t \in {"str", "null", "absent"}
            /\ NormOut[i + 1].d["text"].t \in {"str", "null", "absent"}
            /\ FoldedText(NormOut[i]) = FoldedText(NormOut[i + 1])

\* C6: every KeyChord / KeyTap action normalize_plan retains has a non-empty mainKey
\* holding no delimiter; and for a list of KeyChord / KeyTap entries (mainKey a
\* string or absent, modifiers a list or absent) the trimmed mainKey is split on
\* runs of '|', '+', ',' and whitespace, the first piece of the split is the output
\* mainKey, and an entry is discarded exactly when that piece is empty.
C6_MainKeyFirstPiece ==
    NormReturned
    => /\ \A i \in 1..Len(NormOut) :
            IsKeyEntry(NormOut[i])
            => /\ NormOut[i].d["mainKey"].t = "str"
               /\ NormOut[i].d["mainKey"].s # <<>>
               /\ \A j \in 1..Len(NormOut[i].d["mainKey"].s) :
                     ~IsDelim(NormOut[i].d["mainKey"].s[j])
       /\ (/\ NormGivenList
           /\ \A i \in 1..Len(NormIn) :
                 /\ IsKeyEntry(NormIn[i])
                 /\ NormIn[i].d["mainKey"].t \in {"str", "null", "absent"}
                 /\ NormIn[i].d["modifiers"].t \in {"list", "null", "absent"})
          => /\ \A i \in 1..Len(NormOut) : IsKeyEntry(NormOut[i])
             /\ [i \in 1..Len(NormOut) |-> NormOut[i].d["mainKey"].s]
                  = SelectSeq([i \in 1..Len(NormIn) |-> FirstPieceOfMainKey(NormIn[i])],
                              NonEmpty)

\* C6 witness: of the entries with mainKey "LWIN+R" and " ", the first came out
\* with mainKey "LWIN" and the second was discarded
C6_Witness ==
    /\ NormReturned /\ NormGivenList
    /\ Len(NormIn) = 2 /\ Len(NormOut) = 1
    /\ IsKeyEntry(NormIn[1]) /\ IsKeyEntry(NormIn[2])
    /\ NormIn[1].d["mainKey"] = JStr(<<"L","W","I","N","+","R">>)
    /\ NormIn[2].d["mainKey"] = JStr(sBlank)
    /\ NormOut[1].d["mainKey"] = JStr(LWIN)

\* The canonical form of a modifier token: upper-cased, trimmed, synonyms collapsed
CanonicalForm(tok) ==
    LET u == Strip(Upper(tok)) IN
    IF u = CTRL THEN CONTROL ELSE IF u = ALT THEN MENU ELSE u

IsCanonical(tok) == tok \in Canonical

\* The modifiers expected for an input list: canonical forms of its string tokens,
\* the unrecognized ones removed, order kept; None when nothing survives
ExpectedModifiers(mods) ==
    LET toks == SelectSeq([i \in 1..Len(mods) |->
                             IF mods[i].t = "str" THEN CanonicalForm(mods[i].s) ELSE <<>>],
                          IsCanonical)
    IN  IF toks = <<>> THEN JNull ELSE JList([i \in 1..Len(toks) |-> JStr(toks[i])])

\* C7: in every plan normalize_plan returns, modifiers is absent or a non-empty
\* list of tokens of {SHIFT, CONTROL, MENU, LWIN}; an action of another kind than
\* KeyChord / KeyTap has mainKey and modifiers absent; and when every entry of the
\* input list is retained, the modifiers of a KeyChord / KeyTap action are the
\* input tokens in canonical form, unrecognized ones removed, in the input order.
C7_ModifiersCanonical ==
    NormReturned
    => /\ \A i \in 1..Len(NormOut) :
            LET m == NormOut[i].d["modifiers"] IN
            /\ \/ m = JNull
               \/ /\ m.t = "list" /\ m.l # <<>>
                  /\ \A j \in 1..Len(m.l) : m.l[j].t = "str" /\ m.l[j].s \in Canonical
            /\ ~IsKeyEntry(NormOut[i]) => (NormOut[i].d["mainKey"] = JNull /\ m = JNull)
       /\ (NormGivenList /\ Len(NormOut) = Len(NormIn))
          => \A i \in 1..Len(NormIn) :
                (IsKeyEntry(NormIn[i]) /\ NormIn[i].d["modifiers"].t \in {"list", "null", "absent"})
                => NormOut[i].d["modifiers"] =
                     (IF NormIn[i].d["modifiers"].t = "list"
                      THEN ExpectedModifiers(NormIn[i].d["modifiers"].l) ELSE JNull)

\* C7 witness: ["ctrl", "bogus", "ALT"] came out as ["CONTROL", "MENU"], ["bogus"]
\* came out absent, and a Wait given mainKey and modifiers lost both
C7_Witness ==
    /\ NormReturned /\ NormGivenList
    /\ Len(NormIn) = 2 /\ Len(NormOut) = 2
    /\ NormIn[1].d["modifiers"] = JList(<<JStr(<<"c","t","r","l">>), JStr(sBogus), JStr(ALT)>>)
    /\ NormOut[1].d["modifiers"] = JList(<<JStr(CONTROL), JStr(MENU)>>)
    /\ \/ /\ NormIn[2].d["modifiers"] = JList(<<JStr(sBogus)>>)
          /\ NormOut[2].d["modifiers"] = JNull
       \/ /\ NormIn[2].d["kind"] = JStr(Wait)
          /\ NormIn[2].d["mainKey"] = JStr(sA)
          /\ NormOut[2].d["mainKey"] = JNull

\* The plan the rule-based planner is to build for an application name and a
\* type-text segment (<<>> when there is none)
ExpectedRuleActions(app, typed) ==
    << Obj([kind |-> JStr(KeyTap), mainKey |-> JStr(LWIN)]),
       Obj([kind |-> JStr(Wait), millisecondsDelay |-> JNum(150)]),
       Obj([kind |-> JStr(TextInput), text |-> JStr(app)]),
       Obj([kind |-> JStr(Wait), millisecondsDelay |-> JNum(400)]),
       Obj([kind |-> JStr(KeyTap), mainKey |-> JStr(RETURN)]),
       Obj([kind |-> JStr(Wait), millisecondsDelay |-> JNum(1200)]) >>
    \o (IF typed = <<>> THEN <<>>
        ELSE << Obj([kind |-> JStr(Wait), millisecondsDelay |-> JNum(300)]),
                Obj([kind |-> JStr(TextInput), text |-> JStr(typed)]) >>)

ComparedFields == {"kind", "mainKey", "text", "millisecondsDelay"}

\* Two action lists agree on kind, mainKey, text and millisecondsDelay, entry by entry
SameActions(xs, ys) ==
    /\ Len(xs) = Len(ys)
    /\ \A i \in 1..Len(xs) : \A f \in ComparedFields : Get(xs[i], f) = Get(ys[i], f)

\* A response's actions agree with the dicts ys on the same fields
ResponseMatches(xs, ys) ==
    /\ Len(xs) = Len(ys)
    /\ \A i \in 1..Len(xs) : \A f \in ComparedFields : xs[i][f] = Get(ys[i], f)

\* C8: whenever the rule-based planner returns a plan, its actions are KeyTap(LWIN),
\* Wait(150), TextInput(app_name), Wait(400), KeyTap(RETURN), Wait(1200), followed by
\* Wait(300), TextInput(type_text) exactly when there is a type-text segment (6 or 8
\* actions), and normalize_plan keeps the name and every action, in order, with the
\* same kind, mainKey, text and millisecondsDelay, both when applied to the returned
\* plan and in the response of plan on the rule-based path.
C8_RulePlanNormalizeIdentity ==
    /\ (entry = "maybe_rule_based_plan" /\ pc = "done" /\ ret.v # JNull)
       => LET t == Strip(transcript)
              parts == Parts(t, Lower(t))
              acts == ret.v.d["actions"].l
              n == normalize_plan(ret.v)
          IN  /\ acts = ExpectedRuleActions(AppName(AppPart(parts)), TypePart(parts))
              /\ Len(acts) = (IF Len(parts) > 1 THEN 8 ELSE 6)
              /\ ~n.raised
              /\ n.v.d["name"] = ret.v.d["name"]
              /\ SameActions(n.v.d["actions"].l, acts)
    /\ (entry = "plan" /\ pc = "done" /\ rb_plan # JNull)
       => /\ ~ret.raised
          /\ ret.v.name = rb_plan.d["name"].s
          /\ Len(ret.v.actions) \in {6, 8}
          /\ ResponseMatches(ret.v.actions, rb_plan.d["actions"].l)

\* C8 witness: "open chrome and type hello world" answered on the rule-based path
\* with the 8-action plan named OpenChrome
C8_Witness ==
    /\ entry = "plan" /\ pc = "done" /\ USE_RULE_BASED
    /\ transcript = sOpenChrome \o sAndType \o sHelloWorld
    /\ ~ret.raised
    /\ ret.v.name = <<"O","p","e","n","C","h","r","o","m","e">>
    /\ Len(ret.v.actions) = 8
    /\ ret.v.actions[3].text = JStr(<<"c","h","r","o","m","e">>)
    /\ ret.v.actions[7].millisecondsDelay = JNum(300)
    /\ ret.v.actions[8].text = JStr(sHelloWorld)

\* A usable mainKey: a string that, trimmed, is not empty and does not begin with
\* a delimiter
MainKeyUsable(e) ==
    /\ e.d["mainKey"].t = "str"
    /\ Strip(e.d["mainKey"].s) # <<>>
    /\ ~IsDelim(Head(Strip(e.d["mainKey"].s)))

\* Whether entry e of an input list is to be removed, prev being the last entry
\* retained before it (JNull when none): not a mapping, of invalid kind, a key
\* action without a usable mainKey, or a TextInput repeating the text of prev
ToBeRemoved(e, prev) ==
    \/ e.t # "dict"
    \/ TrimmedKind(e) \notin ALLOWED_ACTION_KINDS
    \/ IsKeyEntry(e) /\ ~MainKeyUsable(e)
    \/ /\ TrimmedKind(e) = TextInput
       /\ prev # JNull
       /\ TrimmedKind(prev) = TextInput
       /\ FoldedText(prev) = FoldedText(e)

RECURSIVE ExpectedRetained(_, _)
\* The entries of an input list that are to be retained, in order
ExpectedRetained(es, prev) ==
    IF es = <<>> THEN <<>>
    ELSE IF ToBeRemoved(Head(es), prev) THEN ExpectedRetained(Tail(es), prev)
    ELSE <<Head(es)>> \o ExpectedRetained(Tail(es), Head(es))

\* C9: for every input action list, normalize_plan returns the list with exactly
\* the non-mapping entries, the entries of invalid kind (of whatever type), the
\* key actions without a usable mainKey and the duplicate adjacent TextInput
\* entries removed, every other entry retained in its original relative order.
\* Stated for the lists that hold a well-formed Wait entry, which is to be retained.
C9_OnlyOffendingEntriesRemoved ==
    (/\ NormGivenList /\ pc = "done"
     /\ \E i \in 1..Len(NormIn) : NormIn[i].t = "dict" /\ NormIn[i].d["kind"] = JStr(Wait))
    => /\ ~ret.raised
       /\ Len(NormOut) = Len(ExpectedRetained(NormIn, JNull))
       /\ \A i \in 1..Len(NormOut) :
             /\ NormOut[i].d["kind"] = ExpectedRetained(NormIn, JNull)[i].d["kind"]
             /\ NormOut[i].d["millisecondsDelay"] =
                  ExpectedRetained(NormIn, JNull)[i].d["millisecondsDelay"]

\* The application name as the claim has it: the segment before "and type" with
\* the leading verb removed, whether or not anything follows the verb
ClaimedAppName(app_part) ==
    IF Lower(Strip(app_part)) \in Verbs THEN <<>> ELSE Strip(RemoveVerb(app_part))

\* C10: the rule-based planner returns "not applicable" exactly when the transcript
\* does not begin with "open ", "launch " or "start " (case-insensitively) or the
\* application name left after splitting off the "and type" segment and removing
\* the leading verb is empty; a returned plan types that application name first.
C10_NotApplicableIffNoAppName ==
    (entry = "maybe_rule_based_plan" /\ pc = "done")
    => LET t == Strip(transcript)
           app == ClaimedAppName(AppPart(Parts(t, Lower(t))))
       IN  /\ (ret.v = JNull) <=> (~Triggers(Lower(t)) \/ app = <<>>)
           /\ ret.v # JNull => ret.v.d["actions"].l[3].d["text"] = JStr(app)

===========================================================================
